---------------------------- MODULE Spec2Model ----------------------------
(***************************************************************************)
(* A model of package pdftotext (go-pdftotext): the functional-options     *)
(* builder NewCommand, the option closures, and the two methods Run and    *)
(* String of *command.                                                     *)
(*                                                                         *)
(* c.args is a Go slice: a (ptr, len, cap) header over a backing array.    *)
(* append writes in place when the capacity allows and allocates a new    *)
(* array otherwise, so the backing arrays are part of the state.           *)
(***************************************************************************)
EXTENDS Integers, Sequences, FiniteSets, TLC

VARIABLES
    cmds,     \* cmds[c]: the command struct {path, args} behind pointer c
    heap,     \* heap[a]: the backing array with id a (a sequence of cap strings)
    opts,     \* opts[c]: the options a NewCommand loop in progress has applied to c
    done,     \* done[c]: "none" | "building" | "built"
    orig,     \* orig[c]: path and visible args of c when NewCommand returned
    calls,    \* calls[k]: the k-th invocation of Run or String
    mode      \* how the callers use the commands: "build" | "seq" | "shared" | "indep"

vars == <<cmds, heap, opts, done, orig, calls, mode>>

-----------------------------------------------------------------------------
(* Bounds *)

\* Options applied by one NewCommand call when only construction is explored.
MaxOpts == 3
\* Options applied by one NewCommand call when the command is then executed.
MaxRunOpts == 3
\* Invocations of Run / String.
MaxCalls == 2
\* Chunks a subprocess writes to its standard output.
MaxOut == 1
\* Options applied by each NewCommand call when two commands are built.
MaxIndepOpts == 3

Cmds == {1, 2}
Calls == 1..MaxCalls

-----------------------------------------------------------------------------
(* Values *)

DefaultPath == "/usr/bin/pdftotext"
Placeholder == "<inpath>"
StdoutMarker == "-"

CustomPaths == {"/opt/xpdf/pdftotext", "./bin/pdftotext"}
InPaths == {"a.pdf", "b.pdf"}
Nums == {7, 20}

\* The nil slice (args of a freshly allocated command) and the zero string.
NilSlice == [ptr |-> 0, len |-> 0, cap |-> 0]
Zero == ""

\* strconv.FormatUint(n, 10)
RECURSIVE FormatUint(_)
FormatUint(n) ==
    IF n < 10 THEN SubSeq("0123456789", n + 1, n + 1)
    ELSE FormatUint(n \div 10) \o SubSeq("0123456789", (n % 10) + 1, (n % 10) + 1)

-----------------------------------------------------------------------------
(* Go slices *)

\* Capacity chosen by append when newLen exceeds oldCap (runtime growslice,
\* for capacities under 256; 16-byte elements up to 16 of them fall on a size
\* class exactly, so no rounding applies).
GrowCap(oldCap, newLen) ==
    IF newLen > 2 * oldCap THEN newLen ELSE 2 * oldCap

\* Element i of backing array a (the zero string for an unallocated cell).
Cell(h, a, i) ==
    IF a \in DOMAIN h /\ i \in 1..Len(h[a]) THEN h[a][i] ELSE Zero

\* The elements a slice header s makes visible.
Elems(h, s) == [i \in 1..s.len |-> Cell(h, s.ptr, i)]

\* append's in-place branch: toks written after the first s.len cells.
WriteCells(h, s, toks) ==
    [h EXCEPT ![s.ptr] =
        [i \in 1..Len(@) |->
            IF i > s.len /\ i <= s.len + Len(toks) THEN toks[i - s.len] ELSE @[i]]]

\* append's growing branch: the contents of the newly allocated array.
GrownArray(h, s, toks) ==
    LET n == s.len + Len(toks)
        c == GrowCap(s.cap, n)
    IN  [i \in 1..c |->
            IF i <= s.len THEN Cell(h, s.ptr, i)
            ELSE IF i <= n THEN toks[i - s.len]
            ELSE Zero]

\* Faulty variant: every command starts from one package-level array.
ArrayShared(c) == 1

\* The array a command's append allocates: every command has its own.
ArrayOf(c) == c

\* Faulty variant: c.args = []string{toks...}
AppendArgsOverwrite(st, c, toks) ==
    [cmds |-> [st.cmds EXCEPT ![c].args =
                   [ptr |-> c, len |-> Len(toks), cap |-> Len(toks)]],
     heap |-> [st.heap EXCEPT ![c] = toks]]

\* c.args = append(c.args, toks...)
AppendArgs(st, c, toks) ==
    LET s == st.cmds[c].args
        n == s.len + Len(toks)
    IN  IF n <= s.cap
        THEN [cmds |-> [st.cmds EXCEPT ![c].args.len = n],
              heap |-> WriteCells(st.heap, s, toks)]
        ELSE [cmds |-> [st.cmds EXCEPT ![c].args =
                            [ptr |-> ArrayOf(c), len |-> n, cap |-> GrowCap(s.cap, n)]],
              heap |-> [st.heap EXCEPT ![ArrayOf(c)] = GrownArray(st.heap, s, toks)]]

\* Faulty variant: *c = command{path: path}
SetPathReset(st, c, path) ==
    [cmds |-> [st.cmds EXCEPT ![c] = [path |-> path, args |-> NilSlice]],
     heap |-> st.heap]

\* c.path = path
SetPath(st, c, path) ==
    [cmds |-> [st.cmds EXCEPT ![c].path = path], heap |-> st.heap]

-----------------------------------------------------------------------------
(* Options: each constructor returns a closure, here the record of its name *)
(* and captured parameters; Invoke is the closure's body.                   *)

Opt(kind, s, n) == [kind |-> kind, s |-> s, n |-> n]

WithCustomPath(path)      == Opt("WithCustomPath", path, <<>>)
WithCustomConfig(path)    == Opt("WithCustomConfig", path, <<>>)
WithPageFrom(page)        == Opt("WithPageFrom", "", <<page>>)
WithPageTo(page)          == Opt("WithPageTo", "", <<page>>)
WithPageRange(from, to)   == Opt("WithPageRange", "", <<from, to>>)
WithModeLayout            == Opt("WithModeLayout", "", <<>>)
WithModeSimple            == Opt("WithModeSimple", "", <<>>)
WithModeSimple2           == Opt("WithModeSimple2", "", <<>>)
WithModeTable             == Opt("WithModeTable", "", <<>>)
WithModeLinePrinter       == Opt("WithModeLinePrinter", "", <<>>)
WithModeRaw               == Opt("WithModeRaw", "", <<>>)
WithCharFixedWidth(width) == Opt("WithCharFixedWidth", "", <<width>>)
WithLineFixedSpacing(sp)  == Opt("WithLineFixedSpacing", "", <<sp>>)
WithTextClipping          == Opt("WithTextClipping", "", <<>>)
WithNoTextDiagonal        == Opt("WithNoTextDiagonal", "", <<>>)
WithEncoding(name)        == Opt("WithEncoding", name, <<>>)
WithEndOfLine(kind)       == Opt("WithEndOfLine", kind, <<>>)
WithNoPageBreak           == Opt("WithNoPageBreak", "", <<>>)
WithByteOrderMarker       == Opt("WithByteOrderMarker", "", <<>>)
WithMarginLeft(margin)    == Opt("WithMarginLeft", "", <<margin>>)
WithMarginRight(margin)   == Opt("WithMarginRight", "", <<margin>>)
WithMarginTop(margin)     == Opt("WithMarginTop", "", <<margin>>)
WithMarginBottom(margin)  == Opt("WithMarginBottom", "", <<margin>>)
WithMargin(t, r, b, l)    == Opt("WithMargin", "", <<t, r, b, l>>)
WithOwnerPassword(pw)     == Opt("WithOwnerPassword", pw, <<>>)
WithUserPassword(pw)      == Opt("WithUserPassword", pw, <<>>)

\* The closure bodies whose single statement is c.args = append(c.args, ...):
\* the tokens appended.
Appended(o) ==
    CASE o.kind = "WithCustomConfig"     -> <<"-cfg", o.s>>
      [] o.kind = "WithPageFrom"         -> <<"-f", FormatUint(o.n[1])>>
      [] o.kind = "WithPageTo"           -> <<"-l", FormatUint(o.n[1])>>
      [] o.kind = "WithModeLayout"       -> <<"-layout">>
      [] o.kind = "WithModeSimple"       -> <<"-simple">>
      [] o.kind = "WithModeSimple2"      -> <<"-simple2">>
      [] o.kind = "WithModeTable"        -> <<"-table">>
      [] o.kind = "WithModeLinePrinter"  -> <<"-lineprinter">>
      [] o.kind = "WithModeRaw"          -> <<"-raw">>
      [] o.kind = "WithCharFixedWidth"   -> <<"-fixed", FormatUint(o.n[1])>>
      [] o.kind = "WithLineFixedSpacing" -> <<"-linespacing", FormatUint(o.n[1])>>
      [] o.kind = "WithTextClipping"     -> <<"-clip">>
      [] o.kind = "WithNoTextDiagonal"   -> <<"-nodiag">>
      [] o.kind = "WithEncoding"         -> <<"-enc", o.s>>
      [] o.kind = "WithEndOfLine"        -> <<"-eol", o.s>>
      [] o.kind = "WithNoPageBreak"      -> <<"-nopgbrk">>
      [] o.kind = "WithByteOrderMarker"  -> <<"-bom">>
      [] o.kind = "WithMarginLeft"       -> <<"-marginl", FormatUint(o.n[1])>>
      [] o.kind = "WithMarginRight"      -> <<"-marginr", FormatUint(o.n[1])>>
      [] o.kind = "WithMarginTop"        -> <<"-margint", FormatUint(o.n[1])>>
      [] o.kind = "WithMarginBottom"     -> <<"-marginb", FormatUint(o.n[1])>>
      [] o.kind = "WithOwnerPassword"    -> <<"-opw", o.s>>
      [] o.kind = "WithUserPassword"     -> <<"-upw", o.s>>

\* The closures a composite option's body constructs, in statement order.
\* The body evaluates each constructor call as an expression statement: the
\* closure it returns is dropped and never called with c.
Constructed(o) ==
    CASE o.kind = "WithPageRange" -> <<WithPageFrom(o.n[1]), WithPageTo(o.n[2])>>
      [] o.kind = "WithMargin"    -> <<WithMarginTop(o.n[1]), WithMarginRight(o.n[2]),
                                       WithMarginBottom(o.n[3]), WithMarginLeft(o.n[4])>>

Composite == {"WithPageRange", "WithMargin"}

\* opt(cmd): the effect of calling closure o with command pointer c.
Invoke(o, st, c) ==
    CASE o.kind = "WithCustomPath" -> SetPath(st, c, o.s)
      [] o.kind \in Composite      -> LET dropped == Constructed(o) IN st
      [] OTHER                     -> AppendArgs(st, c, Appended(o))

\* The option values the callers pass.
Options ==
    {WithCustomPath(p) : p \in CustomPaths}
    \cup {WithCustomConfig("/etc/xpdfrc")}
    \cup {WithPageFrom(n) : n \in Nums} \cup {WithPageTo(n) : n \in Nums}
    \cup {WithPageRange(7, 20)}
    \cup {WithModeLayout, WithModeSimple, WithModeSimple2, WithModeTable,
          WithModeLinePrinter, WithModeRaw}
    \cup {WithCharFixedWidth(7), WithLineFixedSpacing(20)}
    \cup {WithTextClipping, WithNoTextDiagonal, WithNoPageBreak, WithByteOrderMarker}
    \cup {WithEncoding("UTF-8"), WithEndOfLine("unix")}
    \cup {WithMarginLeft(20), WithMarginRight(7), WithMarginTop(105), WithMarginBottom(0)}
    \cup {WithMargin(105, 7, 0, 20)}
    \cup {WithOwnerPassword("owner"), WithUserPassword("user")}

\* The options used to build the commands that are then executed: one that
\* sets the path, one appending two tokens, one appending one.
RunOptions ==
    {WithCustomPath("/opt/xpdf/pdftotext"), WithEncoding("UTF-8"), WithModeLayout}

\* The options used when two commands are built: one that sets the path and
\* one that appends.
IndepOptions == {WithCustomPath("/opt/xpdf/pdftotext"), WithEncoding("UTF-8")}

SeqsUpTo(S, n) == UNION {[1..m -> S] : m \in 0..n}

-----------------------------------------------------------------------------
(* NewCommand *)

\* cmd := &command{path: "/usr/bin/pdftotext"}
FreshCommand == [path |-> DefaultPath, args |-> NilSlice]

\* for _, opt := range opts { opt(cmd) }, from the i-th option on.
RECURSIVE ApplyFrom(_, _, _, _)
ApplyFrom(os, i, st, c) ==
    IF i > Len(os) THEN st ELSE ApplyFrom(os, i + 1, Invoke(os[i], st, c), c)

\* NewCommand(os...) storing the new command behind pointer c.
NewCommand(os, st, c) ==
    ApplyFrom(os, 1, [cmds |-> [st.cmds EXCEPT ![c] = FreshCommand], heap |-> st.heap], c)

\* What a caller holding pointer c can observe of the command.
View(cs, h, c) == [path |-> cs[c].path, args |-> Elems(h, cs[c].args)]

-----------------------------------------------------------------------------
(* Construction, one loop iteration at a time (mode "build") *)

NoOrig == [path |-> "", args |-> <<>>]
NoArg  == [shared |-> FALSE, ptr |-> 0, len |-> 0, own |-> <<>>]
NoProc == [state |-> "none", argv |-> <<>>, out |-> <<>>, status |-> 0]
NilReader == [nil |-> TRUE, bytes |-> <<>>]
IdleCall ==
    [pc |-> "idle", kind |-> "none", cmd |-> 0, inpath |-> "", arg |-> NoArg,
     argv |-> <<>>, attempts |-> 0, proc |-> NoProc, buf |-> <<>>,
     reader |-> NilReader, err |-> "nil", str |-> ""]

InitCommon ==
    /\ heap = [a \in Cmds |-> <<>>]
    /\ opts = [c \in Cmds |-> <<>>]
    /\ orig = [c \in Cmds |-> NoOrig]
    /\ calls = [k \in Calls |-> IdleCall]

\* NewCommand has allocated command 1 and is about to range over opts.
InitBuild ==
    /\ InitCommon
    /\ mode = "build"
    /\ cmds = [c \in Cmds |-> FreshCommand]
    /\ done = [c \in Cmds |-> IF c = 1 THEN "building" ELSE "none"]

\* One iteration of the loop: opt(cmd).
ApplyOption(c, o) ==
    /\ mode = "build"
    /\ done[c] = "building"
    /\ Len(opts[c]) < MaxOpts
    /\ LET st == Invoke(o, [cmds |-> cmds, heap |-> heap], c)
       IN  /\ cmds' = st.cmds
           /\ heap' = st.heap
    /\ opts' = [opts EXCEPT ![c] = Append(@, o)]
    /\ UNCHANGED <<done, orig, calls, mode>>

\* return cmd
ReturnCommand(c) ==
    /\ mode = "build"
    /\ done[c] = "building"
    /\ done' = [done EXCEPT ![c] = "built"]
    /\ orig' = [orig EXCEPT ![c] = View(cmds, heap, c)]
    /\ UNCHANGED <<cmds, heap, opts, calls, mode>>

NextBuild ==
    \/ \E c \in Cmds, o \in Options : ApplyOption(c, o)
    \/ \E c \in Cmds : ReturnCommand(c)

SpecBuild == InitBuild /\ [][NextBuild]_vars

-----------------------------------------------------------------------------
(* Execution: Run and String, one step per point where another goroutine   *)
(* can be scheduled in between (modes "seq", "shared", "indep").           *)
(*                                                                         *)
(* "seq":    one command, one invocation at a time.                        *)
(* "indep":  two commands, each used by an invocation of its own; the      *)
(*           invocations and the second construction overlap freely.       *)
(* "shared": one command, invocations overlap freely.  The writes append   *)
(*           makes into the spare capacity of c.args then race with the    *)
(*           reads of other invocations; every interleaving of the element *)
(*           writes and of the copy exec.Command makes is a behaviour.     *)

InitRun(m) ==
    /\ InitCommon
    /\ mode = m
    /\ cmds = [c \in Cmds |-> [path |-> "", args |-> NilSlice]]
    /\ done = [c \in Cmds |-> "none"]

\* cmd := NewCommand(os...), run to completion by the goroutine that owns c.
NewCommandCall(c, os) ==
    /\ mode \in {"seq", "shared", "indep"}
    /\ mode \in {"seq", "shared"} => c = 1
    /\ mode = "indep" =>
          Len(os) <= MaxIndepOpts /\ \A i \in 1..Len(os) : os[i] \in IndepOptions
    /\ done[c] = "none"
    /\ LET st == NewCommand(os, [cmds |-> cmds, heap |-> heap], c)
       IN  /\ cmds' = st.cmds
           /\ heap' = st.heap
           /\ orig' = [orig EXCEPT ![c] = View(st.cmds, st.heap, c)]
    /\ done' = [done EXCEPT ![c] = "built"]
    /\ UNCHANGED <<opts, calls, mode>>

InFlight(k) == calls[k].pc \notin {"idle", "returned"}

\* Whether invocation k may start on command c now.
MayCall(k, c) ==
    /\ done[c] = "built"
    /\ calls[k].pc = "idle"
    /\ mode \in {"seq", "shared", "indep"}
    /\ mode = "seq" => \A j \in Calls : ~InFlight(j)
    /\ mode = "indep" => c = k

\* Faulty variant: append(c.args, "-", inpath)
RunTailSwapped(inpath) == <<StdoutMarker, inpath>>

\* The arguments Run and String append to c.args.
RunTail(inpath) == <<inpath, StdoutMarker>>
StringTail == <<Placeholder>>

\* The slice append(s, toks...) evaluates to, as the caller's local value:
\* the same array when the capacity allows, a new array of its own otherwise.
SliceValue(h, s, toks) ==
    LET n == s.len + Len(toks)
    IN  IF n <= s.cap
        THEN [shared |-> TRUE, ptr |-> s.ptr, len |-> n, own |-> <<>>]
        ELSE [shared |-> FALSE, ptr |-> 0, len |-> n, own |-> GrownArray(h, s, toks)]

\* The elements of a local slice value.
ArgElems(h, a) ==
    IF a.shared THEN [i \in 1..a.len |-> Cell(h, a.ptr, i)]
    ELSE SubSeq(a.own, 1, a.len)

\* Faulty variant: c.args = append(c.args, inpath, "-") before exec.Command.
RunCallAssign(k, c, inpath) ==
    /\ MayCall(k, c)
    /\ LET st == AppendArgs([cmds |-> cmds, heap |-> heap], c, RunTail(inpath))
           s  == st.cmds[c].args
       IN  /\ cmds' = st.cmds
           /\ heap' = st.heap
           /\ calls' = [calls EXCEPT ![k] =
                  [@ EXCEPT !.pc = "exec", !.kind = "Run", !.cmd = c, !.inpath = inpath,
                            !.arg = [shared |-> TRUE, ptr |-> s.ptr, len |-> s.len,
                                     own |-> <<>>]]]
    /\ UNCHANGED <<opts, done, orig, mode>>

\* c.Run(inpath) up to the first element append stores:
\* append(c.args, inpath, "-") with the result kept as an argument only.
RunCall(k, c, inpath) ==
    /\ MayCall(k, c)
    /\ LET s == cmds[c].args
           a == SliceValue(heap, s, RunTail(inpath))
       IN  /\ calls' = [calls EXCEPT ![k] =
                  [@ EXCEPT !.pc = IF a.shared THEN "append2" ELSE "exec",
                            !.kind = "Run", !.cmd = c, !.inpath = inpath, !.arg = a]]
           /\ heap' = IF a.shared THEN WriteCells(heap, s, <<RunTail(inpath)[1]>>)
                      ELSE heap
    /\ UNCHANGED <<cmds, opts, done, orig, mode>>

\* append stores the second element into the shared array.
AppendSecond(k) ==
    /\ calls[k].pc = "append2"
    /\ LET a == calls[k].arg
       IN  heap' = WriteCells(heap, [ptr |-> a.ptr, len |-> a.len - 1],
                              <<RunTail(calls[k].inpath)[2]>>)
    /\ calls' = [calls EXCEPT ![k].pc = "exec"]
    /\ UNCHANGED <<cmds, opts, done, orig, mode>>

\* c.String() up to the call of exec.Command: append(c.args, "<inpath>").
StringCall(k, c) ==
    /\ MayCall(k, c)
    /\ LET s == cmds[c].args
           a == SliceValue(heap, s, StringTail)
       IN  /\ calls' = [calls EXCEPT ![k] =
                  [@ EXCEPT !.pc = "exec", !.kind = "String", !.cmd = c, !.arg = a]]
           /\ heap' = IF a.shared THEN WriteCells(heap, s, StringTail) ELSE heap
    /\ UNCHANGED <<cmds, opts, done, orig, mode>>

RECURSIVE Join(_, _)
\* strings.Join(elems, sep), as exec.Cmd.String renders Path and Args[1:].
Join(elems, sep) ==
    IF Len(elems) = 0 THEN ""
    ELSE IF Len(elems) = 1 THEN elems[1]
    ELSE elems[1] \o sep \o Join(Tail(elems), sep)

\* exec.Command(c.path, arg...): Args is a copy of name and arg.  For String
\* the description is rendered from it and returned.
ExecCommand(k) ==
    /\ calls[k].pc = "exec"
    /\ LET argv == <<cmds[calls[k].cmd].path>> \o ArgElems(heap, calls[k].arg)
       IN  calls' = [calls EXCEPT ![k] =
               IF @.kind = "String"
               THEN [@ EXCEPT !.pc = "returned", !.argv = argv, !.str = Join(argv, " ")]
               ELSE [@ EXCEPT !.pc = "start", !.argv = argv]]
    /\ UNCHANGED <<cmds, heap, opts, done, orig, mode>>

\* Faulty variant: return bytes.NewBuffer(out), err
RunReturnPartial(out, err) ==
    [reader |-> [nil |-> FALSE, bytes |-> out], err |-> err]

\* if err != nil { return nil, err }; return bytes.NewBuffer(out), nil
RunReturn(out, err) ==
    IF err # "nil" THEN [reader |-> NilReader, err |-> err]
    ELSE [reader |-> [nil |-> FALSE, bytes |-> out], err |-> "nil"]

\* Faulty variant: a failed start is tried once more before the error is returned.
StartFailsRetry(k) ==
    /\ calls[k].pc = "start"
    /\ calls[k].attempts < 2
    /\ calls' = [calls EXCEPT ![k].attempts = @ + 1]
    /\ UNCHANGED <<cmds, heap, opts, done, orig, mode>>

\* cmd.Output(): the executable cannot be started; Output returns the error.
StartFails(k) ==
    /\ calls[k].pc = "start"
    /\ LET r == RunReturn(<<>>, "start failed")
       IN  calls' = [calls EXCEPT ![k] =
               [@ EXCEPT !.pc = "returned", !.attempts = @ + 1,
                         !.reader = r.reader, !.err = r.err]]
    /\ UNCHANGED <<cmds, heap, opts, done, orig, mode>>

\* cmd.Output(): the subprocess is started with the Args exec.Command copied.
Start(k) ==
    /\ calls[k].pc = "start"
    /\ calls' = [calls EXCEPT ![k] =
           [@ EXCEPT !.pc = "running", !.attempts = @ + 1,
                     !.proc = [state |-> "running", argv |-> calls[k].argv,
                               out |-> <<>>, status |-> 0]]]
    /\ UNCHANGED <<cmds, heap, opts, done, orig, mode>>

\* The subprocess writes a chunk to its standard output, which Output
\* captures in the buffer of this call.  A chunk carries the identity of
\* the process that wrote it.
ProcWrite(k) ==
    /\ calls[k].pc = "running"
    /\ Len(calls[k].proc.out) < MaxOut
    /\ calls' = [calls EXCEPT ![k] =
           [@ EXCEPT !.proc.out = Append(@, k), !.buf = Append(@, k)]]
    /\ UNCHANGED <<cmds, heap, opts, done, orig, mode>>

\* The subprocess exits; Output returns what it captured and, for a
\* non-zero status, an *ExitError; Run returns.
ProcExit(k, status) ==
    /\ calls[k].pc = "running"
    /\ LET r == RunReturn(calls[k].buf, IF status = 0 THEN "nil" ELSE "exit status")
       IN  calls' = [calls EXCEPT ![k] =
               [@ EXCEPT !.pc = "returned", !.proc.state = "exited",
                         !.proc.status = status,
                         !.reader = r.reader, !.err = r.err]]
    /\ UNCHANGED <<cmds, heap, opts, done, orig, mode>>

ExitCodes == {0, 1}

Next ==
    \/ \E c \in Cmds, os \in SeqsUpTo(RunOptions, MaxRunOpts) : NewCommandCall(c, os)
    \/ \E k \in Calls, c \in Cmds, p \in InPaths : RunCall(k, c, p)
    \/ \E k \in Calls, c \in Cmds : StringCall(k, c)
    \/ \E k \in Calls : AppendSecond(k)
    \/ \E k \in Calls : ExecCommand(k)
    \/ \E k \in Calls : StartFails(k)
    \/ \E k \in Calls : Start(k)
    \/ \E k \in Calls : ProcWrite(k)
    \/ \E k \in Calls, status \in ExitCodes : ProcExit(k, status)

\* One command, one invocation at a time.
Spec == InitRun("seq") /\ [][Next]_vars
\* One command used by overlapping invocations.
SpecShared == InitRun("shared") /\ [][Next]_vars
\* Independently constructed commands used by overlapping invocations.
SpecIndep == InitRun("indep") /\ [][Next]_vars

-----------------------------------------------------------------------------
(* Properties *)

RECURSIVE Flatten(_)
Flatten(ss) == IF Len(ss) = 0 THEN <<>> ELSE Head(ss) \o Flatten(Tail(ss))

IsPrefix(a, b) == Len(a) <= Len(b) /\ SubSeq(b, 1, Len(a)) = a

EmptyStore == [cmds |-> [c \in Cmds |-> FreshCommand], heap |-> [a \in Cmds |-> <<>>]]

\* path and args of NewCommand(os...).
Built(os) ==
    LET st == NewCommand(os, EmptyStore, 1) IN View(st.cmds, st.heap, 1)

\* The tokens option o contributes: the args of NewCommand(o).
Contribution(o) == Built(<<o>>).args

\* os with every composite option replaced by its constituent options.
Expand(os) ==
    Flatten([i \in 1..Len(os) |->
                IF os[i].kind \in Composite THEN Constructed(os[i]) ELSE <<os[i]>>])

Args(c) == View(cmds, heap, c).args
Path(c) == View(cmds, heap, c).path

\* C1: the args of a command under construction are the concatenation, in
\* call order, of what each option applied so far contributes on its own:
\* nothing is reordered, deduplicated or dropped.
C1_ArgsInCallOrder ==
    \A c \in Cmds :
        done[c] # "none" =>
            Args(c) = Flatten([i \in 1..Len(opts[c]) |-> Contribution(opts[c][i])])

\* Two mutually exclusive mode options around a valued option, all present
\* in the order given.
C1_Witness ==
    /\ done[1] = "built"
    /\ opts[1] = <<WithModeLayout, WithEncoding("UTF-8"), WithModeRaw>>
    /\ Args(1) = <<"-layout", "-enc", "UTF-8", "-raw">>

\* C2: a command built with composite options has the args of the command
\* built with their constituent atomic options in the documented sub-order
\* (WithMargin: top, right, bottom, left; WithPageRange: from, to).
C2_CompositeAsConstituents ==
    \A c \in Cmds :
        done[c] # "none" => Args(c) = Built(Expand(opts[c])).args

\* The path the options os leave: the last WithCustomPath, or the default.
LastCustomPath(os) ==
    LET idx == {i \in 1..Len(os) : os[i].kind = "WithCustomPath"}
    IN  IF idx = {} THEN DefaultPath
        ELSE os[CHOOSE i \in idx : \A j \in idx : j <= i].s

C8_Step ==
    \A c \in Cmds :
        /\ (done[c] # "none")' => Path(c)' = LastCustomPath(opts'[c])
        /\ opts'[c] # opts[c] =>
              LET o == opts'[c][Len(opts'[c])]
              IN  /\ o.kind = "WithCustomPath" => Args(c)' = Args(c)
                  /\ o.kind # "WithCustomPath" => Path(c)' = Path(c)
                  /\ IsPrefix(Args(c), Args(c)')

\* C8: at every step of the construction, path is the default or the value
\* of the last WithCustomPath applied; WithCustomPath leaves args alone,
\* every other option leaves path alone, and the args before an option are a
\* prefix of the args after it.
C8_PathAndArgsIndependent == [][C8_Step]_vars

\* The second WithCustomPath wins and the tokens appended between the two
\* are still there.
C8_Witness ==
    /\ opts[1] = <<WithCustomPath("./bin/pdftotext"), WithEncoding("UTF-8"),
                   WithCustomPath("/opt/xpdf/pdftotext")>>
    /\ Path(1) = "/opt/xpdf/pdftotext"
    /\ Args(1) = <<"-enc", "UTF-8">>

Spawned(k) == calls[k].proc.state # "none"
Returned(k) == calls[k].pc = "returned"

\* The argument vector Run(inpath) is to start command c with.
Expected(c, inpath) == <<Path(c)>> \o Args(c) \o <<inpath, "-">>

\* C3: the subprocess of Run(p) is started at c.path with c.args, then p,
\* then "-".
C3_RunArgv ==
    \A k \in Calls :
        Spawned(k) => calls[k].proc.argv = Expected(calls[k].cmd, calls[k].inpath)

C3_Witness ==
    \E k \in Calls :
        /\ Spawned(k)
        /\ calls[k].proc.argv =
              <<"/opt/xpdf/pdftotext", "-enc", "UTF-8", "-layout", "a.pdf", "-">>

\* C4: a Run that has returned either failed (no start, or a non-zero exit)
\* with an error and a nil reader, or exited with status 0 with no error and
\* a reader over all the bytes its subprocess wrote.
C4_TwoOutcomes ==
    \A k \in Calls :
        Returned(k) /\ calls[k].kind = "Run" =>
            IF ~Spawned(k) \/ calls[k].proc.status # 0
            THEN calls[k].err # "nil" /\ calls[k].reader = NilReader
            ELSE /\ calls[k].err = "nil"
                 /\ calls[k].reader = [nil |-> FALSE, bytes |-> calls[k].proc.out]

\* A subprocess that wrote output and then exited non-zero: no reader.
C4_Witness ==
    \E k \in Calls :
        /\ Returned(k)
        /\ calls[k].proc.status = 1
        /\ Len(calls[k].proc.out) > 0
        /\ calls[k].reader = NilReader

\* The argument vector call k is to start with, from the command as built.
OwnArgv(k) ==
    <<orig[calls[k].cmd].path>> \o orig[calls[k].cmd].args \o <<calls[k].inpath, "-">>

\* C5: with Run and String calls on one command overlapping, every
\* subprocess is started with c.args, its own input path and "-".
C5_ConcurrentReuse ==
    \A k \in Calls :
        Spawned(k) =>
            calls[k].proc.argv = OwnArgv(k)

\* C6: Run and String leave path and args as NewCommand returned them, and
\* a later Run starts its subprocess with exactly those and its own input.
C6_ReadOnly ==
    /\ \A c \in Cmds : done[c] = "built" => View(cmds, heap, c) = orig[c]
    /\ \A k \in Calls :
          Spawned(k) =>
              calls[k].proc.argv = OwnArgv(k)

\* An earlier call has written into the spare capacity of c.args and
\* returned; a later Run with another input path has started its subprocess.
C6_Witness ==
    \E j, k \in Calls :
        /\ Returned(j) /\ calls[j].arg.shared
        /\ calls[k].pc = "running" /\ calls[k].arg.shared
        /\ calls[k].inpath # calls[j].inpath

\* C7: String renders the argument vector Run would start the subprocess
\* with, the input path replaced by "<inpath>".
C7_StringAsRun ==
    \A k \in Calls :
        Returned(k) /\ calls[k].kind = "String" =>
            calls[k].str = Join(Expected(calls[k].cmd, Placeholder), " ")

\* C9: a Run call starts at most one subprocess, has made exactly one
\* attempt when it returns, and returns only once that subprocess is gone.
C9_OneSubprocess ==
    \A k \in Calls :
        /\ calls[k].attempts <= 1
        /\ Returned(k) /\ calls[k].kind = "Run" =>
              /\ calls[k].attempts = 1
              /\ calls[k].proc.state \in {"none", "exited"}
        /\ calls[k].proc.state = "running" => ~Returned(k)

\* A failed start returned after the single attempt.
C9_Witness ==
    \E k \in Calls :
        /\ Returned(k)
        /\ calls[k].err = "start failed"
        /\ calls[k].attempts = 1

\* C10: commands built by separate NewCommand calls keep the path and args
\* they were built with whatever happens to the other; each subprocess gets
\* its own command's args and input path, and each reader holds exactly the
\* bytes of its own subprocess.
C10_Isolated ==
    /\ \A c \in Cmds : done[c] = "built" => View(cmds, heap, c) = orig[c]
    /\ \A k \in Calls :
          /\ Spawned(k) =>
                calls[k].proc.argv = OwnArgv(k)
          /\ \A i \in 1..Len(calls[k].buf) : calls[k].buf[i] = k
          /\ Returned(k) /\ calls[k].err = "nil" /\ calls[k].kind = "Run" =>
                calls[k].reader.bytes = calls[k].proc.out

\* Two commands built from the same option values, their subprocesses
\* running at the same time on different inputs, both having written.
C10_Witness ==
    /\ done[1] = "built" /\ done[2] = "built"
    /\ orig[1] = orig[2] /\ Len(orig[1].args) > 0
    /\ \A k \in {1, 2} : calls[k].pc = "running" /\ calls[k].buf = <<k>>
    /\ calls[1].inpath # calls[2].inpath

=============================================================================
